---- MODULE Spec2Model ----
(***************************************************************************)
(* RopeSliceSource (src/src/lib.rs): the logos::Source implementation that *)
(* wraps a ropey::RopeSlice.  A view is modelled by the sequence of chunks *)
(* the RopeSlice yields: every chunk is a non-empty, valid UTF-8 string    *)
(* (ropey chunks are &str), given here as a sequence of byte values.       *)
(* The operations of the Source impl are operators translated from the     *)
(* code; each action calls one operation and records the call and what it  *)
(* returned.  The lexer that logos derives for the test's Token enum is    *)
(* modelled as a process that drives the source through read.              *)
(***************************************************************************)
EXTENDS Integers, Sequences, FiniteSets, TLC

VARIABLES chunks,   \* the chunks of the wrapped RopeSlice, in order
          call,     \* the last Source call: [op, a, b]
          ret,      \* what that call returned: [tag, val]
          pc,       \* the lexer's position in its generated code
          pos,      \* the lexer's token_end
          matches,  \* end offsets of the tokens the lexer has produced
          errors    \* number of Err tokens the lexer has produced

vars == <<chunks, call, ret, pc, pos, matches, errors>>

-----------------------------------------------------------------------------
(* Bounds of the model. *)

MaxChunks == 2        \* chunks per view
MaxChunkPieces == 2   \* pieces of text per chunk
OverRun == 2          \* how far past length() an argument may lie
MaxTokens == 5        \* tokens in the scanned text
MaxScanChunks == 2    \* chunks of the scanned text

-----------------------------------------------------------------------------
(* Bytes and text. *)

Comma == 44
Filler == 120

\* the text chunks are made of: "," and U+20AC (3 bytes)
Pieces == {<<44>>, <<226, 130, 172>>}

\* the text of the chunks that wide reads are tried on: "," and "abcdefgh"
WidePieces == {<<44>>, <<97, 98, 99, 100, 101, 102, 103, 104>>}

\* Chunk::SIZE of the chunk types the lexer asks for: u8 and &[u8; N]
Sizes == {1, 2, 4, 8, 16}

RECURSIVE Concats(_, _)
\* all concatenations of exactly n members of alphabet
Concats(alphabet, n) ==
    IF n = 0 THEN {<<>>}
    ELSE {p \o s : p \in alphabet, s \in Concats(alphabet, n - 1)}

TextsOver(alphabet, maxn) == UNION {Concats(alphabet, n) : n \in 1..maxn}

RopesOver(texts, maxchunks) == UNION {[1..n -> texts] : n \in 0..maxchunks}

RECURSIVE Flatten(_)
\* the logical buffer: the concatenation of the chunks
Flatten(cs) == IF cs = <<>> THEN <<>> ELSE Head(cs) \o Flatten(Tail(cs))

\* a UTF-8 continuation byte (10xxxxxx)
byte_is_cont(b) == b \in 128..191

RECURSIVE count_chars(_)
\* number of characters of a text: its non-continuation bytes
count_chars(text) ==
    IF text = <<>> THEN 0
    ELSE (IF byte_is_cont(Head(text)) THEN 0 ELSE 1) + count_chars(Tail(text))

-----------------------------------------------------------------------------
(* The ropey::RopeSlice queries the adapter relies on. *)

RECURSIVE len_bytes(_)
len_bytes(cs) == IF cs = <<>> THEN 0 ELSE Len(Head(cs)) + len_bytes(Tail(cs))

RECURSIVE len_chars(_)
len_chars(cs) == IF cs = <<>> THEN 0 ELSE count_chars(Head(cs)) + len_chars(Tail(cs))

RECURSIVE search_byte_idx_le(_, _, _, _)
\* search_byte_idx comparing with <=: a chunk's first byte goes to the chunk before
search_byte_idx_le(cs, byte_idx, i, accum) ==
    IF i >= Len(cs) THEN [idx |-> i, start |-> accum]
    ELSE IF byte_idx <= accum + Len(cs[i]) THEN [idx |-> i, start |-> accum]
    ELSE search_byte_idx_le(cs, byte_idx, i + 1, accum + Len(cs[i]))

RECURSIVE search_byte_idx(_, _, _, _)
\* the chunk holding byte_idx: the first chunk whose end lies past byte_idx,
\* the last chunk when there is none; with the byte offset where it starts
search_byte_idx(cs, byte_idx, i, accum) ==
    IF i >= Len(cs) THEN [idx |-> i, start |-> accum]
    ELSE IF byte_idx < accum + Len(cs[i]) THEN [idx |-> i, start |-> accum]
    ELSE search_byte_idx(cs, byte_idx, i + 1, accum + Len(cs[i]))

RECURSIVE search_char_idx(_, _, _, _, _)
\* the chunk holding char_idx, with its starting byte and char offsets
search_char_idx(cs, char_idx, i, accum_b, accum_c) ==
    IF i >= Len(cs) THEN [idx |-> i, start |-> accum_b, chars |-> accum_c]
    ELSE IF char_idx < accum_c + count_chars(cs[i])
         THEN [idx |-> i, start |-> accum_b, chars |-> accum_c]
    ELSE search_char_idx(cs, char_idx, i + 1,
                         accum_b + Len(cs[i]), accum_c + count_chars(cs[i]))

\* chars of the chunks before chunk i
chars_before(cs, i) == len_chars(SubSeq(cs, 1, i - 1))

\* chunks_at_byte returning 0 for the start of every chunk
chunks_at_byte_nostart(cs, byte_idx) ==
    IF byte_idx > len_bytes(cs) THEN [tag |-> "Panic", idx |-> 0, start |-> 0]
    ELSE IF byte_idx = len_bytes(cs)
         THEN [tag |-> "Ok", idx |-> Len(cs) + 1, start |-> len_bytes(cs)]
    ELSE LET loc == search_byte_idx(cs, byte_idx, 1, 0)
         IN [tag |-> "Ok", idx |-> loc.idx, start |-> 0]

\* chunks_at_byte: the iterator (index of the first chunk it yields, Len+1
\* when it is at the end) and the start of that chunk; panics past the end
chunks_at_byte(cs, byte_idx) ==
    IF byte_idx > len_bytes(cs) THEN [tag |-> "Panic", idx |-> 0, start |-> 0]
    ELSE IF byte_idx = len_bytes(cs)
         THEN [tag |-> "Ok", idx |-> Len(cs) + 1, start |-> len_bytes(cs)]
    ELSE LET loc == search_byte_idx(cs, byte_idx, 1, 0)
         IN [tag |-> "Ok", idx |-> loc.idx, start |-> loc.start]

RECURSIVE floor_char(_, _)
\* str_indices: step back from byte_idx while it is on a continuation byte
floor_char(text, byte_idx) ==
    IF byte_idx < Len(text) /\ byte_idx > 0 /\ byte_is_cont(text[byte_idx + 1])
    THEN floor_char(text, byte_idx - 1)
    ELSE byte_idx

\* char index, within text, of the char that byte byte_idx belongs to
byte_to_char_idx(text, byte_idx) ==
    LET i == floor_char(text, byte_idx)
    IN count_chars(SubSeq(text, 1, IF i < Len(text) THEN i ELSE Len(text)))

RECURSIVE char_to_byte_idx(_, _, _)
\* byte index, within text, where char char_idx starts; Len(text) past the end
char_to_byte_idx(text, char_idx, i) ==
    IF i >= Len(text) THEN Len(text)
    ELSE IF ~byte_is_cont(text[i + 1])
         THEN IF char_idx = 0 THEN i ELSE char_to_byte_idx(text, char_idx - 1, i + 1)
    ELSE char_to_byte_idx(text, char_idx, i + 1)

\* try_byte_to_char: Err past the end
try_byte_to_char(cs, byte_idx) ==
    IF byte_idx > len_bytes(cs) THEN [tag |-> "Err", val |-> 0]
    ELSE IF cs = <<>> THEN [tag |-> "Ok", val |-> 0]
    ELSE LET loc == search_byte_idx(cs, byte_idx, 1, 0)
         IN [tag |-> "Ok",
             val |-> chars_before(cs, loc.idx)
                     + byte_to_char_idx(cs[loc.idx], byte_idx - loc.start)]

\* byte_to_char: try_byte_to_char(..).unwrap()
byte_to_char(cs, byte_idx) ==
    LET r == try_byte_to_char(cs, byte_idx)
    IN IF r.tag = "Err" THEN [tag |-> "Panic", val |-> 0] ELSE r

\* char_to_byte: panics past len_chars()
char_to_byte(cs, char_idx) ==
    IF char_idx > len_chars(cs) THEN [tag |-> "Panic", val |-> 0]
    ELSE IF cs = <<>> THEN [tag |-> "Ok", val |-> 0]
    ELSE LET loc == search_char_idx(cs, char_idx, 1, 0, 0)
         IN [tag |-> "Ok",
             val |-> loc.start + char_to_byte_idx(cs[loc.idx], char_idx - loc.chars, 0)]

\* whether byte_idx (<= len_bytes) sits on a char boundary of its chunk
is_char_boundary(cs, byte_idx) ==
    IF byte_idx = len_bytes(cs) THEN TRUE
    ELSE LET loc == search_byte_idx(cs, byte_idx, 1, 0)
         IN ~byte_is_cont(cs[loc.idx][byte_idx - loc.start + 1])

RECURSIVE clip_whole(_, _, _, _)
\* clip that keeps the chunks the range touches whole
clip_whole(cs, s, e, accum) ==
    IF cs = <<>> THEN <<>>
    ELSE LET c == Head(cs)
             lo == IF s > accum THEN s - accum ELSE 0
             hi == IF e < accum + Len(c) THEN e - accum ELSE Len(c)
             rest == clip_whole(Tail(cs), s, e, accum + Len(c))
         IN IF lo < hi THEN <<c>> \o rest ELSE rest

RECURSIVE clip(_, _, _, _)
\* the chunks of the sub-slice [s, e): every chunk cut to the range, the
\* chunks outside it dropped
clip(cs, s, e, accum) ==
    IF cs = <<>> THEN <<>>
    ELSE LET c == Head(cs)
             lo == IF s > accum THEN s - accum ELSE 0
             hi == IF e < accum + Len(c) THEN e - accum ELSE Len(c)
             rest == clip(Tail(cs), s, e, accum + Len(c))
         IN IF lo < hi THEN <<SubSeq(c, lo + 1, hi)>> \o rest ELSE rest

\* get_byte_slice: None when start > end, when end is out of bounds and
\* when an end of the range is not a char boundary
get_byte_slice(cs, s, e) ==
    IF s > e THEN [tag |-> "None", val |-> <<>>]
    ELSE IF e > len_bytes(cs) THEN [tag |-> "None", val |-> <<>>]
    ELSE IF ~is_char_boundary(cs, s) \/ ~is_char_boundary(cs, e)
         THEN [tag |-> "None", val |-> <<>>]
    ELSE [tag |-> "Some", val |-> clip(cs, s, e, 0)]

-----------------------------------------------------------------------------
(* impl logos::Source for RopeSliceSource *)

len(cs) == len_bytes(cs)

\* read that fills the chunk from the following chunks
read_concat(cs, offset, size) ==
    LET at == chunks_at_byte(cs, offset)
    IN IF at.tag = "Panic" THEN [tag |-> "Panic", val |-> <<>>]
       ELSE IF at.idx > Len(cs) THEN [tag |-> "None", val |-> <<>>]
       ELSE LET data == SubSeq(Flatten(cs), offset + 1, len_bytes(cs))
            IN IF Len(data) < size THEN [tag |-> "None", val |-> <<>>]
               ELSE [tag |-> "Some", val |-> SubSeq(data, 1, size)]

\* read testing data.len() <= Chunk::SIZE
read_le(cs, offset, size) ==
    LET at == chunks_at_byte(cs, offset)
    IN IF at.tag = "Panic" THEN [tag |-> "Panic", val |-> <<>>]
       ELSE IF at.idx > Len(cs) THEN [tag |-> "None", val |-> <<>>]
       ELSE IF offset < at.start \/ offset - at.start > Len(cs[at.idx])
            THEN [tag |-> "Panic", val |-> <<>>]
       ELSE LET data == SubSeq(cs[at.idx], offset - at.start + 1, Len(cs[at.idx]))
            IN IF Len(data) <= size THEN [tag |-> "None", val |-> <<>>]
               ELSE [tag |-> "Some", val |-> SubSeq(data, 1, size)]

\* read::<Chunk>(offset) with Chunk::SIZE = size
read(cs, offset, size) ==
    LET at == chunks_at_byte(cs, offset)
    IN IF at.tag = "Panic" THEN [tag |-> "Panic", val |-> <<>>]
       ELSE IF at.idx > Len(cs) THEN [tag |-> "None", val |-> <<>>]
       ELSE IF offset < at.start \/ offset - at.start > Len(cs[at.idx])
            THEN [tag |-> "Panic", val |-> <<>>]
       ELSE LET data == SubSeq(cs[at.idx], offset - at.start + 1, Len(cs[at.idx]))
            IN IF Len(data) < size THEN [tag |-> "None", val |-> <<>>]
               ELSE [tag |-> "Some", val |-> SubSeq(data, 1, size)]

\* slice through the panicking byte_slice
slice_panicking(cs, start, end) ==
    LET r == get_byte_slice(cs, start, end)
    IN IF r.tag = "None" THEN [tag |-> "Panic", val |-> <<>>] ELSE r

slice(cs, start, end) == get_byte_slice(cs, start, end)

\* find_boundary returning the start of the char that holds index
find_boundary_floor(cs, index) ==
    LET c == byte_to_char(cs, index)
    IN IF c.tag = "Panic" THEN [tag |-> "Panic", val |-> 0]
       ELSE char_to_byte(cs, c.val)

find_boundary(cs, index) ==
    LET c == byte_to_char(cs, index)
    IN IF c.tag = "Panic" THEN [tag |-> "Panic", val |-> 0]
       ELSE LET b == char_to_byte(cs, c.val)
            IN IF b.tag = "Panic" THEN b
               ELSE IF index = b.val THEN [tag |-> "Ok", val |-> index]
               ELSE char_to_byte(cs, c.val + 1)

\* is_boundary without the conversion back to a byte offset
is_boundary_noround(cs, index) == try_byte_to_char(cs, index).tag = "Ok"

\* is_boundary comparing with the start of the next char
is_boundary_next(cs, index) ==
    LET c == try_byte_to_char(cs, index)
    IN IF c.tag = "Err" THEN FALSE
       ELSE LET b == char_to_byte(cs, c.val + 1)
            IN b.tag = "Ok" /\ b.val = index

is_boundary(cs, index) ==
    LET c == try_byte_to_char(cs, index)
    IN IF c.tag = "Err" THEN FALSE
       ELSE LET b == char_to_byte(cs, c.val)
            IN b.tag = "Ok" /\ b.val = index

-----------------------------------------------------------------------------
(* The API specification: any view; a single-threaded caller makes one    *)
(* call at a time and takes its result.                                    *)

NoCall == [op |-> "none", a |-> 0, b |-> 0]
NoRet == [tag |-> "none", val |-> 0]

Args == 0..(len(chunks) + OverRun)

Init ==
    /\ chunks \in RopesOver(TextsOver(Pieces, MaxChunkPieces), MaxChunks)
    /\ call = NoCall
    /\ ret = NoRet
    /\ pc = "idle"
    /\ pos = 0
    /\ matches = <<>>
    /\ errors = 0

Read ==
    /\ pc = "idle"
    /\ \E offset \in Args, size \in Sizes :
        /\ call' = [op |-> "read", a |-> offset, b |-> size]
        /\ ret' = read(chunks, offset, size)
    /\ pc' = "returned"
    /\ UNCHANGED <<chunks, pos, matches, errors>>

Slice ==
    /\ pc = "idle"
    /\ \E start \in Args, end \in Args :
        /\ call' = [op |-> "slice", a |-> start, b |-> end]
        /\ ret' = slice(chunks, start, end)
    /\ pc' = "returned"
    /\ UNCHANGED <<chunks, pos, matches, errors>>

FindBoundary ==
    /\ pc = "idle"
    /\ \E index \in Args :
        /\ call' = [op |-> "find_boundary", a |-> index, b |-> 0]
        /\ ret' = find_boundary(chunks, index)
    /\ pc' = "returned"
    /\ UNCHANGED <<chunks, pos, matches, errors>>

IsBoundary ==
    /\ pc = "idle"
    /\ \E index \in Args :
        /\ call' = [op |-> "is_boundary", a |-> index, b |-> 0]
        /\ ret' = [tag |-> "Ok", val |-> is_boundary(chunks, index)]
    /\ pc' = "returned"
    /\ UNCHANGED <<chunks, pos, matches, errors>>

\* the caller has taken the result; a panic ends the caller
Return ==
    /\ pc = "returned"
    /\ ret.tag # "Panic"
    /\ pc' = "idle"
    /\ call' = NoCall
    /\ ret' = NoRet
    /\ UNCHANGED <<chunks, pos, matches, errors>>

Next == Read \/ Slice \/ FindBoundary \/ IsBoundary \/ Return

Spec == Init /\ [][Next]_vars

\* reads alone, on views whose chunks are long enough for every Chunk::SIZE
InitRead ==
    /\ chunks \in RopesOver(TextsOver(WidePieces, MaxChunkPieces), MaxChunks)
    /\ call = NoCall
    /\ ret = NoRet
    /\ pc = "idle"
    /\ pos = 0
    /\ matches = <<>>
    /\ errors = 0

NextRead == Read \/ Return

SpecRead == InitRead /\ [][NextRead]_vars

-----------------------------------------------------------------------------
(* The scan of tests::test_source: the text is, for each n from 1 to the   *)
(* number of tokens, n filler bytes and one delimiter; the rope holds it   *)
(* in chunks cut anywhere.  The lexer derived for the pattern [^,]*, reads *)
(* the source a byte at a time, and in the loop 16 bytes at a time while   *)
(* such a read succeeds.                                                   *)

RECURSIVE Repeat(_, _)
Repeat(b, n) == IF n = 0 THEN <<>> ELSE <<b>> \o Repeat(b, n - 1)

RECURSIVE ScanText(_)
ScanText(n) ==
    IF n = 0 THEN <<>> ELSE ScanText(n - 1) \o Repeat(Filler, n) \o <<Comma>>

RECURSIVE Chunkings(_, _)
\* every way to cut text into at most k non-empty chunks
Chunkings(text, k) ==
    IF text = <<>> THEN {<<>>}
    ELSE IF k = 0 THEN {}
    ELSE UNION {{<<SubSeq(text, 1, i)>> \o r :
                    r \in Chunkings(SubSeq(text, i + 1, Len(text)), k - 1)} :
                i \in 1..Len(text)}

RECURSIVE run_len(_, _)
\* how many leading bytes of arr differ from the delimiter
run_len(arr, i) ==
    IF i > Len(arr) THEN 0
    ELSE IF arr[i] = Comma THEN 0
    ELSE 1 + run_len(arr, i + 1)

InitScan ==
    /\ \E n \in 1..MaxTokens : chunks \in Chunkings(ScanText(n), MaxScanChunks)
    /\ call = NoCall
    /\ ret = NoRet
    /\ pc = "start"
    /\ pos = 0
    /\ matches = <<>>
    /\ errors = 0

\* Lexer::next at the start of a token
LexStart ==
    /\ pc = "start"
    /\ LET r == read(chunks, pos, 1)
       IN /\ call' = [op |-> "read", a |-> pos, b |-> 1]
          /\ ret' = r
          /\ IF r.tag = "Panic" THEN pc' = "panicked" /\ UNCHANGED <<pos, matches>>
             ELSE IF r.tag = "None" THEN pc' = "done" /\ UNCHANGED <<pos, matches>>
             ELSE IF r.val[1] = Comma
                  THEN /\ pos' = pos + 1
                       /\ matches' = Append(matches, pos + 1)
                       /\ pc' = "start"
             ELSE pos' = pos + 1 /\ pc' = "fast" /\ UNCHANGED matches
    /\ UNCHANGED <<chunks, errors>>

\* the loop over [^,], 16 bytes per read
LexFast ==
    /\ pc = "fast"
    /\ LET r == read(chunks, pos, 16)
       IN /\ call' = [op |-> "read", a |-> pos, b |-> 16]
          /\ ret' = r
          /\ IF r.tag = "Panic" THEN pc' = "panicked" /\ UNCHANGED pos
             ELSE IF r.tag = "None" THEN pc' = "slow" /\ UNCHANGED pos
             ELSE LET k == run_len(r.val, 1)
                  IN /\ pos' = pos + k
                     /\ pc' = IF k = 16 THEN "fast" ELSE "delim"
    /\ UNCHANGED <<chunks, matches, errors>>

\* the loop over [^,], one byte per read
LexSlow ==
    /\ pc = "slow"
    /\ LET r == read(chunks, pos, 1)
       IN /\ call' = [op |-> "read", a |-> pos, b |-> 1]
          /\ ret' = r
          /\ IF r.tag = "Panic" THEN pc' = "panicked" /\ UNCHANGED pos
             ELSE IF r.tag = "Some" /\ r.val[1] # Comma
                  THEN pos' = pos + 1 /\ pc' = "slow"
             ELSE pc' = "delim" /\ UNCHANGED pos
    /\ UNCHANGED <<chunks, matches, errors>>

\* the delimiter that ends the token, or an Err token when it is missing
LexDelim ==
    /\ pc = "delim"
    /\ LET r == read(chunks, pos, 1)
       IN /\ call' = [op |-> "read", a |-> pos, b |-> 1]
          /\ ret' = r
          /\ IF r.tag = "Panic"
             THEN pc' = "panicked" /\ UNCHANGED <<pos, matches, errors>>
             ELSE IF r.tag = "Some" /\ r.val[1] = Comma
                  THEN /\ pos' = pos + 1
                       /\ matches' = Append(matches, pos + 1)
                       /\ pc' = "start"
                       /\ UNCHANGED errors
             ELSE /\ errors' = errors + 1
                  /\ pos' = IF pos < len(chunks) THEN pos + 1 ELSE pos
                  /\ pc' = IF pos < len(chunks) THEN "start" ELSE "done"
                  /\ UNCHANGED matches
    /\ UNCHANGED chunks

NextScan == LexStart \/ LexFast \/ LexSlow \/ LexDelim

\* lexer.count() runs the lexer until it returns None
SpecScan == InitScan /\ [][NextScan]_vars /\ WF_vars(NextScan)

-----------------------------------------------------------------------------
(* The properties. *)

\* the logical buffer of the view
Buf == Flatten(chunks)

\* chunk k holds the bytes at offsets ChunkStart(k) .. ChunkEnd(k) - 1
ChunkStart(k) == len_bytes(SubSeq(chunks, 1, k - 1))
ChunkEnd(k) == ChunkStart(k) + Len(chunks[k])

\* offset i is the first byte of an encoded character, or the end of the buffer
IsCharStart(i) == i = Len(Buf) \/ (i < Len(Buf) /\ ~byte_is_cont(Buf[i + 1]))

\* number of delimiters in the buffer
NumTokens == Cardinality({i \in 1..Len(Buf) : Buf[i] = Comma})

\* C1: a read at an offset inside the view whose chunk has fewer than size
\* bytes left from the offset returns None, whatever the buffer holds after
\* it; a read that succeeds lies within one chunk
C1_NoAssembly ==
    call.op = "read" =>
        /\ \A k \in 1..Len(chunks) :
              (ChunkStart(k) <= call.a /\ call.a < ChunkEnd(k)
                  /\ ChunkEnd(k) - call.a < call.b)
              => ret.tag = "None"
        /\ ret.tag = "Some" =>
              \E k \in 1..Len(chunks) :
                  ChunkStart(k) <= call.a /\ call.a + call.b <= ChunkEnd(k)

C1_Witness ==
    /\ call.op = "read" /\ call.b = 8 /\ ret.tag = "None"
    /\ Len(Buf) - call.a >= 8
    /\ \E k \in 1..Len(chunks) : call.a < ChunkEnd(k) /\ ChunkEnd(k) - call.a = 3

\* C2: a read whose range [offset, offset + size) lies within one chunk
\* returns exactly those bytes of the logical buffer
C2_ReadWithinChunk ==
    (call.op = "read"
        /\ \E k \in 1..Len(chunks) :
              ChunkStart(k) <= call.a /\ call.a + call.b <= ChunkEnd(k))
    => ret = [tag |-> "Some", val |-> SubSeq(Buf, call.a + 1, call.a + call.b)]

C2_Witness ==
    /\ call.op = "read" /\ call.b = 16 /\ ret.tag = "Some"
    /\ Len(chunks) = 2 /\ call.a = ChunkStart(2)

\* C3: a read at an offset equal to or greater than length() returns None
\* and does not panic
C3_OutOfRangeIsNone ==
    (call.op = "read" /\ call.a >= len(chunks)) => ret.tag = "None"

\* C4 as stated: every range with a <= b <= length() slices successfully to
\* the bytes a .. b-1, also when a or b is inside a multi-byte character
C4_AnyRangeSlices ==
    (call.op = "slice" /\ call.a <= call.b /\ call.b <= len(chunks))
    => (ret.tag = "Some" /\ Flatten(ret.val) = SubSeq(Buf, call.a + 1, call.b))

\* C4 amended: a range with a <= b <= length() whose ends are both character
\* boundaries slices successfully to the bytes a .. b-1, over any number of
\* chunks; when a or b is inside a multi-byte character slice returns None
C4_AlignedRangeSlices ==
    (call.op = "slice" /\ call.a <= call.b /\ call.b <= len(chunks))
    => IF IsCharStart(call.a) /\ IsCharStart(call.b)
       THEN ret.tag = "Some" /\ Flatten(ret.val) = SubSeq(Buf, call.a + 1, call.b)
       ELSE ret.tag = "None"

C4_Witness ==
    /\ call.op = "slice" /\ ret.tag = "Some" /\ Len(ret.val) = 2
    /\ Len(chunks) = 2
    /\ 0 < call.a /\ call.a < ChunkEnd(1)
    /\ ChunkEnd(1) < call.b /\ call.b < Len(Buf)

\* C5: a slice whose end exceeds length() or whose start exceeds its end
\* returns None
C5_InvalidRangeIsNone ==
    (call.op = "slice" /\ (call.b > len(chunks) \/ call.a > call.b))
    => ret.tag = "None"

C5_Witness ==
    /\ call.op = "slice" /\ ret.tag = "None"
    /\ call.a <= call.b /\ call.b > Len(Buf) /\ Len(Buf) > 0

\* C6: for index <= length(), find_boundary returns the smallest character
\* boundary at or after index; it is index itself at length()
C6_SmallestBoundary ==
    (call.op = "find_boundary" /\ call.a <= len(chunks))
    => /\ ret.tag = "Ok"
       /\ ret.val >= call.a
       /\ ret.val <= len(chunks)
       /\ IsCharStart(ret.val)
       /\ \A j \in call.a..(ret.val - 1) : ~IsCharStart(j)
       /\ call.a = len(chunks) => ret.val = call.a

C6_Witness ==
    /\ call.op = "find_boundary" /\ ret.tag = "Ok"
    /\ call.a < Len(Buf) /\ ret.val = call.a + 2 /\ ret.val < Len(Buf)

\* C7: is_boundary returns a boolean, true exactly when index <= length()
\* and index is the first byte of a character or equals length()
C7_IsBoundary ==
    call.op = "is_boundary"
    => /\ ret.val \in BOOLEAN
       /\ ret.val = (call.a <= len(chunks) /\ IsCharStart(call.a))

C7_Witness ==
    /\ call.op = "is_boundary" /\ ret.val = FALSE
    /\ 0 < call.a /\ call.a < Len(Buf)
    /\ byte_is_cont(Buf[call.a + 1])

\* C8: for index in [0, length()], is_boundary(index) is true if and only if
\* find_boundary(index) = index
C8_BoundaryAgree ==
    /\ (call.op = "is_boundary" /\ call.a <= len(chunks))
       => (ret.val = TRUE
              <=> find_boundary(chunks, call.a) = [tag |-> "Ok", val |-> call.a])
    /\ (call.op = "find_boundary" /\ call.a <= len(chunks))
       => (ret = [tag |-> "Ok", val |-> call.a] <=> is_boundary(chunks, call.a))

C8_Witness ==
    /\ call.op = "find_boundary" /\ ret.tag = "Ok" /\ ret.val = call.a
    /\ 0 < call.a /\ call.a < Len(Buf) /\ Len(chunks) = 2

\* C9: the scan of a text of N tokens, in chunks cut anywhere, ends; when it
\* has ended it has produced N matches and no error, and every match ends
\* right after a delimiter
C9_ScanMatchesAll ==
    /\ <>(pc = "done")
    /\ [](pc = "done" =>
            /\ Len(matches) = NumTokens
            /\ errors = 0
            /\ \A i \in 1..Len(matches) :
                  matches[i] \in 1..Len(Buf) /\ Buf[matches[i]] = Comma)

C9_Witness ==
    /\ pc = "done" /\ Len(matches) = MaxTokens
    /\ Len(chunks) = MaxScanChunks

\* C10: a read of size 1 at an offset below length() returns the byte at
\* that offset; when a read of some size succeeds it ends within the buffer
\* and the read of every smaller size at that offset returns its first bytes
C10_NarrowReads ==
    /\ (call.op = "read" /\ call.b = 1 /\ call.a < len(chunks))
       => ret = [tag |-> "Some", val |-> <<Buf[call.a + 1]>>]
    /\ (call.op = "read" /\ ret.tag = "Some")
       => /\ call.a + call.b <= len(chunks)
          /\ \A w \in Sizes :
                w <= call.b
                => read(chunks, call.a, w)
                     = [tag |-> "Some", val |-> SubSeq(ret.val, 1, w)]

C10_Witness ==
    /\ call.op = "read" /\ call.b = 1 /\ ret.tag = "Some"
    /\ Len(chunks) = 2 /\ call.a = ChunkStart(2)

====
